---------------------------- MODULE Spec2Model ----------------------------
(***************************************************************************)
(* A state-machine model of kafka/client.py (class KafkaClient): the       *)
(* connection registry, the cluster metadata cache, the broker-aware       *)
(* request router and the typed request facades.                           *)
(*                                                                         *)
(* Every caller (thread) is a small interpreter of the methods it runs:    *)
(* op[c] is the public call in progress, snd[c] the locals of              *)
(* _send_broker_aware_request, lk[c] the activation of                     *)
(* _get_leader_for_partition and stk[c] the stack of activations of the    *)
(* recursive _load_metadata_for_topics.  Program counters are named after  *)
(* the source line they stand at ("L85" is client.py line 85).             *)
(*                                                                         *)
(* The collaborators the file calls but does not define are the            *)
(* environment: a pool's request/push either succeeds or raises            *)
(* ConnectionError, a metadata response is any broker list with any        *)
(* leader assignment of the requested topics, a decoded response carries   *)
(* any error code.                                                         *)
(***************************************************************************)
EXTENDS Integers, Sequences, FiniteSets, TLC

(***************************************************************************)
(* Bounds of the model.                                                    *)
(***************************************************************************)
\* longest payload list handed to a send_*_request call
MaxPayloads == 2
\* number of metadata responses that may report an unassigned topic
MaxAbsent == 1
\* a public call starts only while fewer than MaxId correlation ids are used
MaxId == 3
\* number of send_*_request calls made on the client
MaxSends == 1

(***************************************************************************)
(* The cluster the stub brokers describe.                                  *)
(***************************************************************************)
Topics == {"t", "u"}
ClusterPartitions == [topic \in Topics |-> IF topic = "t" THEN {0, 1} ELSE {0}]
AllPartitions == {0, 1}
BrokerIds == {1, 2}
\* meta.leader of a partition without a leader (client.py line 100)
NoLeader == -1
Callers == {"c1", "c2"}

BrokerMetadata(id, host) == [nodeId |-> id, host |-> host, port |-> 9092]
TopicAndPartition(topic, partition) == [topic |-> topic, partition |-> partition]
Address(broker) == <<broker.host, broker.port>>

\* the (host, port) handed to the constructor
Bootstrap == <<"h1", 9092>>
\* the broker lists a metadata response may carry: broker 2 moves host
BrokerLists ==
    { [id \in BrokerIds |-> BrokerMetadata(id, IF id = 1 THEN "h1" ELSE h2)]
        : h2 \in {"h2", "h3"} }
AllBrokers == UNION { {bl[id] : id \in DOMAIN bl} : bl \in BrokerLists }
Keys == { TopicAndPartition(topic, p) : topic \in Topics, p \in AllPartitions }

(***************************************************************************)
(* Helpers: Python dicts are functions with a finite domain.               *)
(***************************************************************************)
EmptyDict == [x \in {} |-> x]
DictPop(d, k) == [x \in DOMAIN d \ {k} |-> d[x]]
DictSet(d, k, v) == [x \in DOMAIN d \cup {k} |-> IF x = k THEN v ELSE d[x]]
Range(s) == { s[i] : i \in DOMAIN s }
\* every order in which a dict with the keys S may be iterated
Orders(S) == { s \in [1..Cardinality(S) -> S] : Range(s) = S }
Min(S) == CHOOSE x \in S : \A y \in S : x <= y
RECURSIVE Ascending(_)
\* a dict of small ints iterates in ascending key order
Ascending(S) == IF S = {} THEN <<>> ELSE <<Min(S)>> \o Ascending(S \ {Min(S)})
SeqsUpTo(S, n) == UNION { [1..k -> S] : k \in 0..n }

VARIABLES
    conns,              \* self.conns: (host, port) -> pool instance
    brokers,            \* self.brokers: broker id -> BrokerMetadata
    topics_to_brokers,  \* self.topics_to_brokers: TopicAndPartition -> BrokerMetadata
    topic_partitions,   \* self.topic_partitions: topic -> list of partitions
    ID_GEN,             \* KafkaClient.ID_GEN: the next correlation id
    pools,              \* number of KafkaConnectionPool instances constructed
    absentLeft,         \* metadata responses that may still report an unassigned topic
    active,             \* the callers that use the client
    nsend,              \* number of send_*_request calls started
    seen,               \* history: the first lookup since the last invalidation, refresh
                        \* of its topic, or send call
    op,                 \* per caller: the public call in progress
    snd,                \* per caller: locals of _send_broker_aware_request
    lk,                 \* per caller: activation of _get_leader_for_partition
    stk                 \* per caller: activations of _load_metadata_for_topics

vars == <<conns, brokers, topics_to_brokers, topic_partitions, ID_GEN, pools,
          absentLeft, active, nsend, seen, op, snd, lk, stk>>
env == <<absentLeft, active, nsend, seen>>
cache == <<brokers, topics_to_brokers, topic_partitions>>
control == <<op, snd, lk, stk>>

(***************************************************************************)
(* Activation records.                                                     *)
(***************************************************************************)
\* a fresh activation of _load_metadata_for_topics(*topics)
LoadFrame(topics) ==
    [pc |-> "L72", topics |-> topics, request_id |-> 0,
     todo |-> <<>>, tried |-> <<>>, via |-> <<>>,
     brokers |-> EmptyDict, resp |-> EmptyDict,
     tq |-> <<>>, topic |-> "", pq |-> <<>>]

NoLookup ==
    [pc |-> "none", topic |-> "", partition |-> 0, hit |-> FALSE,
     loads |-> 0, id0 |-> 0, before |-> EmptyDict, ret |-> EmptyDict,
     unassigned |-> FALSE, mixed |-> FALSE, last |-> EmptyDict]

NoSend ==
    [pc |-> "none", i |-> 1, original_keys |-> <<>>,
     payloads_by_broker |-> EmptyDict, todo |-> {}, broker |-> EmptyDict,
     conn |-> 0, request_id |-> 0, acc |-> EmptyDict, failed_payloads |-> <<>>,
     sent |-> <<>>, ret |-> <<>>]

\* op[c] of a caller between two public calls; fn = "none" before its first
NoOp ==
    [fn |-> "none", pc |-> "done", topics |-> {}, payloads |-> <<>>,
     acks0 |-> FALSE, fail_on_error |-> FALSE,
     status |-> "ok", exc |-> "", failed |-> <<>>, out |-> <<>>,
     id0 |-> 0, absent0 |-> 0, pre |-> <<>>, prev |-> <<>>]

Snapshot == [brokers |-> brokers, topics_to_brokers |-> topics_to_brokers,
             topic_partitions |-> topic_partitions]

Top(c) == stk[c][Len(stk[c])]
Below(c) == SubSeq(stk[c], 1, Len(stk[c]) - 1)
SetTop(c, f) == stk' = [stk EXCEPT ![c] = Below(c) \o <<f>>]

\* an exception leaves every activation of the caller and ends its public call;
\* failed is what the exception is about: the payloads not delivered, or the
\* pools that refused the metadata request
Raise(c, exc, failed) ==
    /\ stk' = [stk EXCEPT ![c] = <<>>]
    /\ lk' = [lk EXCEPT ![c].pc = IF @ = "none" THEN "none" ELSE "raised"]
    /\ snd' = [snd EXCEPT ![c].pc = IF @ = "none" THEN "none" ELSE "raised"]
    /\ op' = [op EXCEPT ![c].pc = "done", ![c].status = "raised",
                        ![c].exc = exc, ![c].failed = failed]

(***************************************************************************)
(* The metadata responses of the stub discovery endpoint.                  *)
(***************************************************************************)
\* the partition -> leader maps a response may carry for one topic
PartitionMaps(topic) ==
    {EmptyDict} \cup [ClusterPartitions[topic] -> BrokerIds \cup {NoLeader}]
Unassigned(pm) == pm = EmptyDict \/ \E p \in DOMAIN pm : pm[p] = NoLeader
\* decode_metadata_response of the answer to a request for `topics`
\* (no topics: every topic of the cluster)
MetadataResponses(topics) ==
    LET asked == IF topics = {} THEN Topics ELSE topics
    IN  { [brokers |-> bl, topics |-> tm] :
            bl \in BrokerLists,
            tm \in { f \in [asked -> UNION {PartitionMaps(x) : x \in asked}] :
                       \A x \in asked : f[x] \in PartitionMaps(x) } }
ReportsUnassigned(r) == \E x \in DOMAIN r.topics : Unassigned(r.topics[x])

\* history of the lookup that waits for the refresh: what response r says of its key
Told(l, r) ==
    IF l.pc = "none" \/ l.topic \notin DOMAIN r.topics THEN l
    ELSE LET pm == r.topics[l.topic]
             none == { p \in DOMAIN pm : pm[p] = NoLeader }
         IN  [l EXCEPT
                !.unassigned = @ \/ none = DOMAIN pm,
                !.mixed = @ \/ (none # {} /\ none # DOMAIN pm),
                !.last = IF l.partition \in DOMAIN pm \ none
                         THEN r.brokers[pm[l.partition]] ELSE EmptyDict]

(***************************************************************************)
(* _load_metadata_for_topics, lines 67-107, with _next_id (109-114) and    *)
(* _send_broker_unaware_request (116-129) inlined where they are called.   *)
(***************************************************************************)
\* a slip: the counter is read and not advanced
SameId(n) == n
\* lines 109-114: ID_GEN.next() hands out the count and advances it by one, in
\* one step of the interpreter (itertools.count is a built-in)
NextId(n) == n + 1

\* lines 72-74 and 121: take a correlation id, start iterating self.conns
LoadNextId(c) ==
    /\ stk[c] # <<>> /\ Top(c).pc = "L72"
    /\ ID_GEN' = NextId(ID_GEN)
    /\ \E order \in Orders(DOMAIN conns) :
         SetTop(c, [Top(c) EXCEPT !.pc = "L121", !.request_id = ID_GEN,
                                     !.todo = order, !.tried = <<>>])
    /\ UNCHANGED <<conns, cache, pools, env, op, snd, lk>>

\* lines 121-127: conn.request raised, try the next pool
UnawareFail(c) ==
    /\ stk[c] # <<>> /\ Top(c).pc = "L121" /\ Top(c).todo # <<>>
    /\ SetTop(c, [Top(c) EXCEPT !.todo = Tail(@),
                                !.tried = Append(@, Head(Top(c).todo))])
    /\ UNCHANGED <<conns, cache, ID_GEN, pools, env, op, snd, lk>>

\* lines 123, 76-83: the pool answered; decode brokers and topics
UnawareOk(c) ==
    /\ stk[c] # <<>> /\ Top(c).pc = "L121" /\ Top(c).todo # <<>>
    /\ \E r \in MetadataResponses(Top(c).topics) :
         /\ ReportsUnassigned(r) => absentLeft > 0
         /\ absentLeft' = IF ReportsUnassigned(r) THEN absentLeft - 1 ELSE absentLeft
         /\ lk' = [lk EXCEPT ![c] = Told(@, r)]
         /\ seen' = IF seen # EmptyDict /\ seen.key.topic \in DOMAIN r.topics
                    THEN EmptyDict ELSE seen
         /\ SetTop(c, [Top(c) EXCEPT !.pc = "L85", !.brokers = r.brokers,
                                     !.resp = r.topics,
                                     !.via = Head(Top(c).todo)])
    /\ UNCHANGED <<conns, cache, ID_GEN, pools, active, nsend, op, snd>>

\* lines 129, 77-78: every pool failed, response is None
UnawareNone(c) ==
    /\ stk[c] # <<>> /\ Top(c).pc = "L121" /\ Top(c).todo = <<>>
    /\ Raise(c, "AllServersFailed", Top(c).tried)
    /\ UNCHANGED <<conns, cache, ID_GEN, pools, env>>

\* line 85
LoadSetBrokers(c) ==
    /\ stk[c] # <<>> /\ Top(c).pc = "L85"
    /\ brokers' = Top(c).brokers
    /\ SetTop(c, [Top(c) EXCEPT !.pc = "L86"])
    /\ UNCHANGED <<conns, topics_to_brokers, topic_partitions, ID_GEN, pools,
                   env, op, snd, lk>>

\* the value line 86 assigns
ResetLeaders(old) == EmptyDict

\* line 86, and the order in which line 88 will iterate topics.items()
LoadResetLeaders(c) ==
    /\ stk[c] # <<>> /\ Top(c).pc = "L86"
    /\ topics_to_brokers' = ResetLeaders(topics_to_brokers)
    /\ \E order \in Orders(DOMAIN Top(c).resp) :
         SetTop(c, [Top(c) EXCEPT !.pc = "L88", !.tq = order])
    /\ UNCHANGED <<conns, brokers, topic_partitions, ID_GEN, pools,
                   env, op, snd, lk>>

\* lines 88-91 and 93: next topic, pop its partition list; it has partitions
LoadTopic(c) ==
    /\ stk[c] # <<>> /\ Top(c).pc = "L88" /\ Top(c).tq # <<>>
    /\ LET topic == Head(Top(c).tq) IN
         /\ Top(c).resp[topic] # EmptyDict
         /\ topic_partitions' = DictPop(topic_partitions, topic)
         /\ SetTop(c, [Top(c) EXCEPT !.pc = "L99", !.topic = topic, !.tq = Tail(@),
                         !.pq = Ascending(DOMAIN Top(c).resp[topic])])
    /\ UNCHANGED <<conns, brokers, topics_to_brokers, ID_GEN, pools,
                   env, op, snd, lk>>

\* lines 88-97: the topic has no partitions: retry for it, then break
LoadTopicEmpty(c) ==
    /\ stk[c] # <<>> /\ Top(c).pc = "L88" /\ Top(c).tq # <<>>
    /\ LET topic == Head(Top(c).tq) IN
         /\ Top(c).resp[topic] = EmptyDict
         /\ topic_partitions' = DictPop(topic_partitions, topic)
         /\ stk' = [stk EXCEPT ![c] =
              Below(c) \o <<[Top(c) EXCEPT !.topic = topic, !.tq = <<>>],
                            LoadFrame({topic})>>]
    /\ UNCHANGED <<conns, brokers, topics_to_brokers, ID_GEN, pools,
                   env, op, snd, lk>>

\* a slip: the partition without a leader is skipped, no retry
LoadSkip(c) ==
    /\ stk[c] # <<>> /\ Top(c).pc = "L99" /\ Top(c).pq # <<>>
    /\ Top(c).resp[Top(c).topic][Head(Top(c).pq)] = NoLeader
    /\ SetTop(c, [Top(c) EXCEPT !.pq = Tail(@)])
    /\ UNCHANGED <<conns, cache, ID_GEN, pools, env, op, snd, lk>>

\* lines 99-103: the partition has no leader: retry for the topic, then go on
LoadRetry(c) ==
    /\ stk[c] # <<>> /\ Top(c).pc = "L99" /\ Top(c).pq # <<>>
    /\ Top(c).resp[Top(c).topic][Head(Top(c).pq)] = NoLeader
    /\ stk' = [stk EXCEPT ![c] =
         Below(c) \o <<[Top(c) EXCEPT !.pq = Tail(@)], LoadFrame({Top(c).topic})>>]
    /\ UNCHANGED <<conns, cache, ID_GEN, pools, env, op, snd, lk>>

\* lines 99-100, 104-106: the partition has a leader
LoadSetLeader(c) ==
    /\ stk[c] # <<>> /\ Top(c).pc = "L99" /\ Top(c).pq # <<>>
    /\ Top(c).resp[Top(c).topic][Head(Top(c).pq)] # NoLeader
    /\ LET f == Top(c)
           p == Head(f.pq)
       IN  topics_to_brokers' =
             DictSet(topics_to_brokers, TopicAndPartition(f.topic, p),
                     f.brokers[f.resp[f.topic][p]])
    /\ SetTop(c, [Top(c) EXCEPT !.pc = "L107"])
    /\ UNCHANGED <<conns, brokers, topic_partitions, ID_GEN, pools,
                   env, op, snd, lk>>

\* line 107: defaultdict(list)[topic].append(partition)
LoadAppendPartition(c) ==
    /\ stk[c] # <<>> /\ Top(c).pc = "L107"
    /\ LET f == Top(c)
           old == IF f.topic \in DOMAIN topic_partitions
                  THEN topic_partitions[f.topic] ELSE <<>>
       IN  topic_partitions' = DictSet(topic_partitions, f.topic,
                                       Append(old, Head(f.pq)))
    /\ SetTop(c, [Top(c) EXCEPT !.pc = "L99", !.pq = Tail(@)])
    /\ UNCHANGED <<conns, brokers, topics_to_brokers, ID_GEN, pools,
                   env, op, snd, lk>>

\* line 99: the partitions of the topic are done, back to line 88
LoadPartitionsDone(c) ==
    /\ stk[c] # <<>> /\ Top(c).pc = "L99" /\ Top(c).pq = <<>>
    /\ SetTop(c, [Top(c) EXCEPT !.pc = "L88"])
    /\ UNCHANGED <<conns, cache, ID_GEN, pools, env, op, snd, lk>>

\* line 88 with no topic left (or after the break of line 97): return
LoadReturn(c) ==
    /\ stk[c] # <<>> /\ Top(c).pc = "L88" /\ Top(c).tq = <<>>
    /\ stk' = [stk EXCEPT ![c] = Below(c)]
    /\ op' = IF Len(stk[c]) = 1 /\ op[c].fn = "init"
             THEN [op EXCEPT ![c].pc = "done"] ELSE op
    /\ UNCHANGED <<conns, cache, ID_GEN, pools, env, snd, lk>>

LoadStep(c) ==
    \/ LoadNextId(c)
    \/ UnawareFail(c)
    \/ UnawareOk(c)
    \/ UnawareNone(c)
    \/ LoadSetBrokers(c)
    \/ LoadResetLeaders(c)
    \/ LoadTopic(c)
    \/ LoadTopicEmpty(c)
    \/ LoadRetry(c)
    \/ LoadSetLeader(c)
    \/ LoadAppendPartition(c)
    \/ LoadPartitionsDone(c)
    \/ LoadReturn(c)

(***************************************************************************)
(* _get_leader_for_partition, lines 57-65.                                 *)
(***************************************************************************)
LookupKey(c) == TopicAndPartition(lk[c].topic, lk[c].partition)
StartLookup(c, topic, partition) ==
    lk' = [lk EXCEPT ![c] = [NoLookup EXCEPT !.pc = "L59", !.topic = topic,
             !.partition = partition, !.id0 = ID_GEN,
             !.before = IF /\ seen # EmptyDict
                           /\ seen.key = TopicAndPartition(topic, partition)
                        THEN seen.leader ELSE EmptyDict]]

\* lines 58-59: the key is cached
LookupHit(c) ==
    /\ stk[c] = <<>> /\ lk[c].pc = "L59"
    /\ LookupKey(c) \in DOMAIN topics_to_brokers
    /\ lk' = [lk EXCEPT ![c].pc = "L62", ![c].hit = TRUE]
    /\ UNCHANGED <<conns, cache, ID_GEN, pools, env, op, snd, stk>>

\* lines 59-60: a miss calls _load_metadata_for_topics(topic)
LookupMiss(c) ==
    /\ stk[c] = <<>> /\ lk[c].pc = "L59"
    /\ LookupKey(c) \notin DOMAIN topics_to_brokers
    /\ lk' = [lk EXCEPT ![c].pc = "L62", ![c].loads = @ + 1]
    /\ stk' = [stk EXCEPT ![c] = <<LoadFrame({lk[c].topic})>>]
    /\ UNCHANGED <<conns, cache, ID_GEN, pools, env, op, snd>>

\* a slip: while for the if of line 59
LookupAgain(c) ==
    /\ stk[c] = <<>> /\ lk[c].pc = "L62"
    /\ LookupKey(c) \notin DOMAIN topics_to_brokers
    /\ lk' = [lk EXCEPT ![c].loads = @ + 1]
    /\ stk' = [stk EXCEPT ![c] = <<LoadFrame({lk[c].topic})>>]
    /\ UNCHANGED <<conns, cache, ID_GEN, pools, env, op, snd>>

\* lines 62-63
LookupUnknown(c) ==
    /\ stk[c] = <<>> /\ lk[c].pc = "L62"
    /\ LookupKey(c) \notin DOMAIN topics_to_brokers
    /\ Raise(c, "PartitionDoesNotExist", <<>>)
    /\ UNCHANGED <<conns, cache, ID_GEN, pools, env>>

\* line 62, the key is there
LookupRecheck(c) ==
    /\ stk[c] = <<>> /\ lk[c].pc = "L62"
    /\ LookupKey(c) \in DOMAIN topics_to_brokers
    /\ lk' = [lk EXCEPT ![c].pc = "L65"]
    /\ UNCHANGED <<conns, cache, ID_GEN, pools, env, op, snd, stk>>

\* what line 65 returns
LeaderOf(key) == topics_to_brokers[key]

\* line 65
LookupReturn(c) ==
    /\ stk[c] = <<>> /\ lk[c].pc = "L65"
    /\ IF LookupKey(c) \in DOMAIN topics_to_brokers
       THEN /\ lk' = [lk EXCEPT ![c].pc = "done", ![c].ret = LeaderOf(LookupKey(c))]
            /\ op' = IF op[c].fn = "lookup" THEN [op EXCEPT ![c].pc = "done"] ELSE op
            /\ seen' = IF seen # EmptyDict THEN seen
                       ELSE [key |-> LookupKey(c), leader |-> LeaderOf(LookupKey(c))]
            /\ UNCHANGED <<snd, stk>>
       ELSE Raise(c, "KeyError", <<>>) /\ UNCHANGED seen
    /\ UNCHANGED <<conns, cache, ID_GEN, pools, absentLeft, active, nsend>>

LookupStep(c) ==
    \/ LookupHit(c)
    \/ LookupMiss(c)
    \/ LookupUnknown(c)
    \/ LookupRecheck(c)
    \/ LookupReturn(c)

(***************************************************************************)
(* The decoded responses of a leader: one per (topic, partition) of the    *)
(* request, each with any error code.                                      *)
(***************************************************************************)
\* 0 is success, 3 is in ERROR_CODE_MAPPING, 99 is not
ErrorCodes == {0, 3, 99}
ERROR_CODE_MAPPING == [code \in {3} |-> "UnknownTopicOrPartitionError"]
Response(key, error, broker) ==
    [topic |-> key.topic, partition |-> key.partition, error |-> error,
     broker |-> broker.nodeId]

(***************************************************************************)
(* _group_request, lines 131-144.                                          *)
(***************************************************************************)
\* lines 137-141: resolve the leader of the next payload
GroupLookup(c) ==
    /\ stk[c] = <<>> /\ snd[c].pc = "S137" /\ snd[c].i <= Len(op[c].payloads)
    /\ StartLookup(c, op[c].payloads[snd[c].i].topic,
                      op[c].payloads[snd[c].i].partition)
    /\ snd' = [snd EXCEPT ![c].pc = "S142"]
    /\ UNCHANGED <<conns, cache, ID_GEN, pools, env, op, stk>>

\* lines 142-143: payloads_by_broker[leader].append(payload)
GroupAdd(c) ==
    /\ snd[c].pc = "S142" /\ lk[c].pc = "done"
    /\ LET leader == lk[c].ret
           g == snd[c].payloads_by_broker
           old == IF leader \in DOMAIN g THEN g[leader] ELSE <<>>
           p == op[c].payloads[snd[c].i]
       IN  snd' = [snd EXCEPT
             ![c].pc = "S137", ![c].i = @ + 1,
             ![c].payloads_by_broker = DictSet(g, leader, Append(old, snd[c].i)),
             ![c].original_keys = Append(@, TopicAndPartition(p.topic, p.partition))]
    /\ lk' = [lk EXCEPT ![c] = NoLookup]
    /\ UNCHANGED <<conns, cache, ID_GEN, pools, env, op, stk>>

\* a slip: the grouping ends once one payload is resolved
SomeResolved(c) == snd[c].i > 1
\* line 137: the loop over the payloads is exhausted
AllResolved(c) == snd[c].i > Len(op[c].payloads)

\* lines 144, 168-173: every payload is grouped
GroupReturn(c) ==
    /\ snd[c].pc = "S137" /\ AllResolved(c)
    /\ snd' = [snd EXCEPT ![c].pc = "S176",
                          ![c].todo = DOMAIN snd[c].payloads_by_broker]
    /\ UNCHANGED <<conns, cache, ID_GEN, pools, env, op, lk, stk>>

(***************************************************************************)
(* _send_broker_aware_request, lines 146-202, with _get_conn_for_broker    *)
(* (43-55) and _next_id inlined.                                           *)
(***************************************************************************)
\* line 176: the next leader group, in the dict's order
SendNextBroker(c) ==
    /\ snd[c].pc = "S176" /\ snd[c].todo # {}
    /\ \E broker \in snd[c].todo :
         snd' = [snd EXCEPT ![c].pc = "S47", ![c].broker = broker,
                            ![c].todo = @ \ {broker}]
    /\ UNCHANGED <<conns, cache, ID_GEN, pools, env, op, lk, stk>>

\* a slip: the registry is not consulted
NeverHasPool(address) == FALSE
\* line 47: (broker.host, broker.port) in self.conns
HasPool(address) == address \in DOMAIN conns

\* line 47
GetConnCheck(c) ==
    /\ snd[c].pc = "S47"
    /\ snd' = [snd EXCEPT ![c].pc =
         IF HasPool(Address(snd[c].broker)) THEN "S55" ELSE "S48"]
    /\ UNCHANGED <<conns, cache, ID_GEN, pools, env, op, lk, stk>>

\* lines 48-53: construct a pool and store it
GetConnCreate(c) ==
    /\ snd[c].pc = "S48"
    /\ pools' = pools + 1
    /\ conns' = DictSet(conns, Address(snd[c].broker), pools + 1)
    /\ snd' = [snd EXCEPT ![c].pc = "S55"]
    /\ UNCHANGED <<cache, ID_GEN, env, op, lk, stk>>

\* lines 55, 177-180: the pool of the leader, a correlation id, the request
GetConnReturn(c) ==
    /\ snd[c].pc = "S55"
    /\ snd' = [snd EXCEPT ![c].pc = "S183",
                          ![c].conn = conns[Address(snd[c].broker)],
                          ![c].request_id = ID_GEN]
    /\ ID_GEN' = NextId(ID_GEN)
    /\ UNCHANGED <<conns, cache, pools, env, op, lk, stk>>

\* a slip: line 192 left out
KeepLeaders(old) == old
\* the value line 192 assigns
Invalidate(old) == EmptyDict
\* a slip: = for += in line 191
FailedOnly(failed_payloads, payloads) == payloads
\* the value line 191 assigns
FailedPlus(failed_payloads, payloads) == failed_payloads \o payloads
\* a slip: break for continue in line 193
BreakAfterFailure(todo) == {}
\* where line 193 leaves the loop over the leader groups
AfterFailure(todo) == todo
Sent(c, how, ok) ==
    Append(snd[c].sent, [broker |-> snd[c].broker, conn |-> snd[c].conn,
                         id |-> snd[c].request_id, how |-> how, ok |-> ok])
\* a slip: conn.request although there is no decoder
AlwaysRequest(c) == "request"
\* lines 184-187: push when decoder_fn is None, request otherwise
How(c) == IF op[c].acks0 THEN "push" ELSE "request"

\* lines 183-193: push or request raised ConnectionError
SendFail(c) ==
    /\ snd[c].pc = "S183"
    /\ snd' = [snd EXCEPT
         ![c].pc = "S176", ![c].sent = Sent(c, How(c), FALSE),
         ![c].todo = AfterFailure(@),
         ![c].failed_payloads =
             FailedPlus(@, snd[c].payloads_by_broker[snd[c].broker])]
    /\ topics_to_brokers' = Invalidate(topics_to_brokers)
    /\ seen' = EmptyDict
    /\ UNCHANGED <<conns, brokers, topic_partitions, ID_GEN, pools, absentLeft,
                   active, nsend, op, lk, stk>>

\* lines 184-185, 194: decoder_fn is None, the push went out
SendPush(c) ==
    /\ snd[c].pc = "S183" /\ op[c].acks0
    /\ snd' = [snd EXCEPT ![c].pc = "S176", ![c].sent = Sent(c, How(c), TRUE)]
    /\ UNCHANGED <<conns, cache, ID_GEN, pools, env, op, lk, stk>>

\* the accumulator after lines 195-196 stored the responses `errs` of `broker`
Accumulate(acc, errs, broker) ==
    [k \in DOMAIN acc \cup DOMAIN errs |->
        IF k \in DOMAIN errs THEN Response(k, errs[k], broker) ELSE acc[k]]

\* lines 186-187, 194-196: the request was answered
SendRequest(c) ==
    /\ snd[c].pc = "S183" /\ ~op[c].acks0
    /\ LET group == snd[c].payloads_by_broker[snd[c].broker]
           keys == { snd[c].original_keys[i] : i \in Range(group) }
       IN  \E errs \in [keys -> ErrorCodes] :
             snd' = [snd EXCEPT
               ![c].pc = "S176", ![c].sent = Sent(c, "request", TRUE),
               ![c].acc = Accumulate(@, errs, snd[c].broker)]
    /\ UNCHANGED <<conns, cache, ID_GEN, pools, env, op, lk, stk>>

\* lines 198-199
SendRaiseFailed(c) ==
    /\ snd[c].pc = "S176" /\ snd[c].todo = {}
    /\ snd[c].failed_payloads # <<>>
    /\ Raise(c, "FailedPayloadsException", snd[c].failed_payloads)
    /\ UNCHANGED <<conns, cache, ID_GEN, pools, env>>

\* a slip: acc.values() for the generator of line 202
OrderedAsStored(acc, original_keys) ==
    LET ks == CHOOSE o \in Orders(DOMAIN acc) : TRUE
    IN  [i \in 1..Len(ks) |-> acc[ks[i]]]
\* what line 202 returns
Ordered(acc, original_keys) ==
    IF acc # EmptyDict
    THEN [i \in 1..Len(original_keys) |-> acc[original_keys[i]]]
    ELSE <<>>

\* line 202
SendReturn(c) ==
    /\ snd[c].pc = "S176" /\ snd[c].todo = {}
    /\ snd[c].failed_payloads = <<>>
    /\ snd' = [snd EXCEPT ![c].pc = "done",
                          ![c].ret = Ordered(snd[c].acc, snd[c].original_keys)]
    /\ UNCHANGED <<conns, cache, ID_GEN, pools, env, op, lk, stk>>

(***************************************************************************)
(* The facades send_produce_request (208-253), send_fetch_request          *)
(* (255-283), send_offset_request (285-300), send_offset_commit_request    *)
(* (302-318) and send_offset_fetch_request (320-338): the same loop over   *)
(* the responses in each.                                                  *)
(***************************************************************************)
\* ERROR_CODE_MAPPING.get(resp.error, UnknownException)
ExceptionCls(error) ==
    IF error \in DOMAIN ERROR_CODE_MAPPING THEN ERROR_CODE_MAPPING[error]
    ELSE "UnknownException"

\* a slip: fail_on_error not consulted
OffendingAlways(resps, fail_on_error) ==
    { i \in 1..Len(resps) : resps[i].error # 0 }
\* the responses that make the loop raise, by position
Offending(resps, fail_on_error) ==
    { i \in 1..Len(resps) : fail_on_error /\ resps[i].error # 0 }

\* lines 240-253
Facade(c) ==
    /\ op[c].fn = "send" /\ op[c].pc = "run" /\ snd[c].pc = "done"
    /\ LET bad == Offending(snd[c].ret, op[c].fail_on_error) IN
         IF bad = {}
         THEN op' = [op EXCEPT ![c].pc = "done", ![c].out = snd[c].ret]
         ELSE op' = [op EXCEPT ![c].pc = "done", ![c].status = "raised",
                       ![c].exc = ExceptionCls(snd[c].ret[Min(bad)].error),
                       ![c].out = SubSeq(snd[c].ret, 1, Min(bad) - 1)]
    /\ UNCHANGED <<conns, cache, ID_GEN, pools, env, snd, lk, stk>>

SendStep(c) ==
    \/ GroupLookup(c)
    \/ GroupAdd(c)
    \/ GroupReturn(c)
    \/ SendNextBroker(c)
    \/ GetConnCheck(c)
    \/ GetConnCreate(c)
    \/ GetConnReturn(c)
    \/ SendFail(c)
    \/ SendPush(c)
    \/ SendRequest(c)
    \/ SendRaiseFailed(c)
    \/ SendReturn(c)
    \/ Facade(c)

(***************************************************************************)
(* The public calls a caller may start.                                    *)
(***************************************************************************)
Ready == \E c \in Callers : op[c].fn = "init" /\ op[c].pc = "done"
                              /\ op[c].status = "ok"
Idle(c) ==
    /\ c \in active
    /\ op[c].pc = "done" /\ (op[c].fn # "none" \/ Ready)
    /\ ~(op[c].fn = "init" /\ op[c].status = "raised")
    /\ ID_GEN < MaxId
\* the record of a call that starts
NewOp(fn) ==
    [NoOp EXCEPT !.fn = fn, !.pc = "run", !.id0 = ID_GEN, !.absent0 = absentLeft,
                 !.pre = Snapshot]
\* history: how the send call just before this call ended, and what was cached
\* when it began
Prev(c) ==
    IF op[c].fn = "send"
    THEN [exc |-> op[c].exc, cached |-> DOMAIN op[c].pre.topics_to_brokers]
    ELSE <<>>

\* a caller asks for the leader of a partition
CallLookup(c) ==
    /\ Idle(c)
    /\ \E key \in Keys :
         /\ op' = [op EXCEPT ![c] = [NewOp("lookup") EXCEPT !.prev = Prev(c)]]
         /\ StartLookup(c, key.topic, key.partition)
    /\ snd' = [snd EXCEPT ![c] = NoSend]
    /\ UNCHANGED <<conns, cache, ID_GEN, pools, env, stk>>

\* a caller sends payloads through one of the send_*_request facades
CallSend(c) ==
    /\ Idle(c) /\ nsend < MaxSends
    /\ \E payloads \in SeqsUpTo(Keys, MaxPayloads), acks0, fail_on_error \in BOOLEAN :
         op' = [op EXCEPT ![c] = [NewOp("send") EXCEPT !.payloads = payloads,
                  !.acks0 = acks0, !.fail_on_error = fail_on_error]]
    /\ nsend' = nsend + 1
    /\ snd' = [snd EXCEPT ![c] = [NoSend EXCEPT !.pc = "S137"]]
    /\ lk' = [lk EXCEPT ![c] = NoLookup]
    /\ seen' = EmptyDict
    /\ UNCHANGED <<conns, cache, ID_GEN, pools, absentLeft, active, stk>>

\* a caller sends one payload through one of the send_*_request facades;
\* prev remembers the transport calls of the caller's call before this one
SendOne(c, modes) ==
    /\ Idle(c)
    /\ \E key \in Keys, acks0 \in BOOLEAN, fail_on_error \in modes :
         op' = [op EXCEPT ![c] = [NewOp("send") EXCEPT !.payloads = <<key>>,
                  !.acks0 = acks0, !.fail_on_error = fail_on_error,
                  !.prev = snd[c].sent]]
    /\ snd' = [snd EXCEPT ![c] = [NoSend EXCEPT !.pc = "S137"]]
    /\ lk' = [lk EXCEPT ![c] = NoLookup]
    /\ seen' = EmptyDict
    /\ UNCHANGED <<conns, cache, ID_GEN, pools, absentLeft, active, nsend, stk>>

\* a caller makes one-payload calls one after another
CallOne(c) == SendOne(c, BOOLEAN)

\* a thread makes its one call on the constructed client, in strict mode
ThreadCall(c) == op[c].fn \in {"none", "init"} /\ SendOne(c, {TRUE})

(***************************************************************************)
(* __init__, lines 21-37: one pool for the bootstrap address, empty        *)
(* caches, and the first _load_metadata_for_topics() about to run.         *)
(***************************************************************************)
Constructor == CHOOSE c \in Callers : TRUE
InitClient ==
    /\ conns = [a \in {Bootstrap} |-> 1]
    /\ pools = 1
    /\ brokers = EmptyDict
    /\ topics_to_brokers = EmptyDict
    /\ topic_partitions = EmptyDict
    /\ ID_GEN = 0
    /\ absentLeft \in {0, MaxAbsent}
    /\ seen = EmptyDict
    /\ op = [c \in Callers |-> IF c = Constructor
                               THEN [NoOp EXCEPT !.fn = "init", !.pc = "run",
                                       !.absent0 = absentLeft, !.pre = Snapshot]
                               ELSE NoOp]
    /\ snd = [c \in Callers |-> NoSend]
    /\ lk = [c \in Callers |-> NoLookup]
    /\ stk = [c \in Callers |-> IF c = Constructor THEN <<LoadFrame({})>> ELSE <<>>]

\* one caller; the runs against a cluster that reports unassigned topics
\* make no send_*_request call
Init ==
    /\ InitClient
    /\ active = {Constructor}
    /\ nsend = IF absentLeft = 0 THEN 0 ELSE MaxSends

Next ==
    \E c \in Callers :
        \/ LoadStep(c)
        \/ LookupStep(c)
        \/ SendStep(c)
        \/ CallLookup(c)
        \/ CallSend(c)

Spec == Init /\ [][Next]_vars

\* every call into a pool returns and the caller's thread keeps being scheduled
LiveSpec == Spec /\ WF_vars(Next)

(***************************************************************************)
(* Clients whose callers send one payload per call: one caller that makes  *)
(* call after call, and two threads that share the client once it is       *)
(* constructed and whose steps interleave line by line.                    *)
(***************************************************************************)
\* _load_metadata_for_topics against a cluster that reports every partition
\* with a leader: the retries of lines 93-97 and 100-103 are never taken
LoadAssigned(c) ==
    \/ LoadNextId(c)
    \/ UnawareFail(c)
    \/ UnawareOk(c)
    \/ UnawareNone(c)
    \/ LoadSetBrokers(c)
    \/ LoadResetLeaders(c)
    \/ LoadTopic(c)
    \/ LoadSetLeader(c)
    \/ LoadAppendPartition(c)
    \/ LoadPartitionsDone(c)
    \/ LoadReturn(c)

NextOne ==
    \E c \in Callers :
        \/ LoadAssigned(c)
        \/ LookupStep(c)
        \/ SendStep(c)
        \/ CallOne(c)

SeqInit ==
    /\ InitClient
    /\ absentLeft = 0
    /\ active = {Constructor}
    /\ nsend = 0

SeqSpec == SeqInit /\ [][NextOne]_vars

\* the client as __init__ leaves it when the first response listed the brokers
\* bl and reported every partition of the cluster led by broker b
Constructed(bl, b) ==
    /\ conns = [a \in {Bootstrap} |-> 1]
    /\ pools = 1
    /\ ID_GEN = 1
    /\ brokers = bl
    /\ topics_to_brokers =
         [k \in { x \in Keys : x.partition \in ClusterPartitions[x.topic] } |-> bl[b]]
    /\ topic_partitions = [x \in Topics |-> Ascending(ClusterPartitions[x])]
    /\ op = [c \in Callers |-> IF c = Constructor
                               THEN [NoOp EXCEPT !.fn = "init", !.pre =
                                       [brokers |-> EmptyDict,
                                        topics_to_brokers |-> EmptyDict,
                                        topic_partitions |-> EmptyDict]]
                               ELSE NoOp]
    /\ snd = [c \in Callers |-> NoSend]
    /\ lk = [c \in Callers |-> NoLookup]
    /\ stk = [c \in Callers |-> <<>>]

\* two threads share a client that one of them has constructed, when broker 2
\* was at its first host and led every partition
ThreadsInit ==
    /\ Constructed(CHOOSE bl \in BrokerLists : bl[2].host = "h2", 2)
    /\ absentLeft = 0
    /\ seen = EmptyDict
    /\ active = Callers
    /\ nsend = 0

ThreadsNext ==
    \E c \in Callers :
        \/ LoadAssigned(c)
        \/ LookupStep(c)
        \/ SendStep(c)
        \/ ThreadCall(c)

ThreadsSpec == ThreadsInit /\ [][ThreadsNext]_vars

(***************************************************************************)
(* Properties of the client.                                               *)
(***************************************************************************)
SendOver(c) == op[c].fn = "send" /\ op[c].pc = "done"
Grouped(c) == snd[c].i > Len(op[c].payloads)
FailedBrokers(c) == { snd[c].sent[j].broker : j \in { x \in DOMAIN snd[c].sent : ~snd[c].sent[x].ok } }
Count(seq, x) == Cardinality({ j \in DOMAIN seq : seq[j] = x })

\* C1: with a decoder and no transport failure _send_broker_aware_request
\* returns one response per payload, the i-th being the response decoded for
\* the (topic, partition) of the i-th payload by a leader that was sent that
\* key, whatever the order in which the leader groups were dispatched.
OrderPreservation ==
    \A c \in Callers :
        (op[c].fn = "send" /\ ~op[c].acks0 /\ snd[c].pc = "done") =>
            LET P == op[c].payloads
                R == snd[c].ret
                g == snd[c].payloads_by_broker
            IN  /\ Len(R) = Len(P)
                /\ \A i \in 1..Len(P) :
                      /\ R[i].topic = P[i].topic
                      /\ R[i].partition = P[i].partition
                      /\ \E j \in DOMAIN snd[c].sent :
                            /\ snd[c].sent[j].ok
                            /\ snd[c].sent[j].broker.nodeId = R[i].broker
                            /\ \E m \in Range(g[snd[c].sent[j].broker]) : P[m] = P[i]

\* two payloads for two leaders, the group of the second dispatched first
OrderPreservationWitness ==
    \E c \in Callers :
        /\ op[c].fn = "send" /\ ~op[c].acks0 /\ snd[c].pc = "done"
        /\ Len(op[c].payloads) = 2 /\ Len(snd[c].sent) = 2
        /\ 2 \in Range(snd[c].payloads_by_broker[snd[c].sent[1].broker])

\* C2: when the transport call of some leader group failed, the call ends
\* with FailedPayloadsException carrying exactly the payloads of the failed
\* groups, each once, and returns no response.
PartialFailurePrecision ==
    \A c \in Callers :
        (SendOver(c) /\ FailedBrokers(c) # {}) =>
            /\ op[c].status = "raised" /\ op[c].exc = "FailedPayloadsException"
            /\ \A m \in 1..Len(op[c].payloads) :
                  Count(op[c].failed, m) =
                    IF \E b \in FailedBrokers(c) :
                          m \in Range(snd[c].payloads_by_broker[b])
                    THEN 1 ELSE 0
            /\ Range(op[c].failed) \subseteq 1..Len(op[c].payloads)
            /\ op[c].out = <<>> /\ snd[c].ret = <<>>

\* one group was answered and decoded, another failed
PartialFailureWitness ==
    \E c \in Callers :
        /\ SendOver(c) /\ op[c].exc = "FailedPayloadsException"
        /\ \E j, k \in DOMAIN snd[c].sent :
              /\ snd[c].sent[j].ok /\ snd[c].sent[j].how = "request"
              /\ ~snd[c].sent[k].ok
        /\ snd[c].acc # EmptyDict

\* C3: once the payloads are grouped, every leader group is dispatched
\* exactly once, with one push or request per distinct leader, whether or
\* not the transport call of another group failed.
EveryGroupDispatchedOnce ==
    \A c \in Callers :
        (SendOver(c) /\ Grouped(c)) =>
            LET g == snd[c].payloads_by_broker
                sent == snd[c].sent
            IN  /\ Len(sent) = Cardinality(DOMAIN g)
                /\ { sent[j].broker : j \in DOMAIN sent } = DOMAIN g
                /\ \A j \in DOMAIN sent :
                      sent[j].how = IF op[c].acks0 THEN "push" ELSE "request"
                /\ \A m \in 1..Len(op[c].payloads) :
                      Cardinality({ b \in DOMAIN g : m \in Range(g[b]) }) = 1

\* the first group dispatched failed and the second was still dispatched
EveryGroupDispatchedWitness ==
    \E c \in Callers :
        /\ SendOver(c) /\ Grouped(c)
        /\ Len(snd[c].sent) = 2 /\ ~snd[c].sent[1].ok

\* C4: a send call with a transport failure ends with an empty leader map,
\* and the lookup that follows it misses and sends a metadata request
\* before it returns a leader.
InvalidationOnFailure ==
    \A c \in Callers :
        /\ (SendOver(c) /\ op[c].exc = "FailedPayloadsException") =>
              topics_to_brokers = EmptyDict
        /\ (/\ op[c].fn = "lookup" /\ op[c].prev # <<>>
            /\ op[c].prev.exc = "FailedPayloadsException") =>
              /\ op[c].pre.topics_to_brokers = EmptyDict
              /\ lk[c].pc # "L59" => (~lk[c].hit /\ lk[c].loads = 1)
              /\ lk[c].pc = "done" => ID_GEN > lk[c].id0

\* a key cached before the failed send is looked up after it
InvalidationWitness ==
    \E c \in Callers :
        /\ op[c].fn = "lookup" /\ op[c].prev # <<>>
        /\ op[c].prev.exc = "FailedPayloadsException"
        /\ LookupKey(c) \in op[c].prev.cached
        /\ lk[c].pc = "done"

\* C5: a refresh for the topic of a missed key leaves the leader entries and
\* the partition lists of every other topic as they were.
RefreshLeavesOtherTopics ==
    \A c \in Callers :
        (/\ op[c].fn = "lookup" /\ op[c].pc = "run" /\ stk[c] = <<>>
         /\ lk[c].pc = "L62" /\ lk[c].loads = 1) =>
            LET before == op[c].pre IN
            /\ \A k \in DOMAIN before.topics_to_brokers :
                  k.topic # lk[c].topic =>
                    /\ k \in DOMAIN topics_to_brokers
                    /\ topics_to_brokers[k] = before.topics_to_brokers[k]
            /\ \A x \in Topics \ {lk[c].topic} :
                  /\ x \in DOMAIN topic_partitions <=> x \in DOMAIN before.topic_partitions
                  /\ x \in DOMAIN topic_partitions =>
                        topic_partitions[x] = before.topic_partitions[x]

\* C6: a lookup of a key that was looked up before, with no transport
\* failure in between (and no refresh of the key's own topic), returns the
\* same BrokerMetadata and sends no metadata request, whatever other lookups
\* were made in between.
IdempotentLeaderCache ==
    \A c \in Callers :
        (lk[c].pc = "done" /\ lk[c].before # EmptyDict) =>
            /\ lk[c].ret = lk[c].before
            /\ lk[c].loads = 0
            /\ ID_GEN = lk[c].id0

\* C7: a hit returns without a metadata request; a miss refreshes once and
\* re-checks; the lookup returns the leader that is in the cache, or fails
\* with the unknown-partition error when the key is still absent.
LookupMissHandling ==
    \A c \in Callers :
        LET l == lk[c] IN
        /\ l.loads <= 1
        /\ l.pc \in {"L62", "L65", "done"} =>
              /\ l.hit <=> l.loads = 0
              /\ l.hit => ID_GEN = l.id0
              /\ (stk[c] = <<>> /\ l.pc # "L62") => LookupKey(c) \in DOMAIN topics_to_brokers
        /\ l.pc = "done" =>
              /\ LookupKey(c) \in DOMAIN topics_to_brokers
              /\ l.ret = topics_to_brokers[LookupKey(c)]
        /\ l.pc = "raised" =>
              /\ op[c].exc \in {"PartitionDoesNotExist", "AllServersFailed"}
              /\ ~l.hit /\ l.loads = 1
              /\ op[c].exc = "PartitionDoesNotExist" =>
                    LookupKey(c) \notin DOMAIN topics_to_brokers

\* a miss, one refresh, and the leader is there
LookupMissWitness ==
    \E c \in Callers : lk[c].pc = "done" /\ lk[c].loads = 1 /\ ~lk[c].hit

\* C8: when a response of the refresh reports the topic without any leader
\* (or without partitions) and the later ones with leaders, the refresh
\* sends a further request, ends, and the lookup returns the leader of the
\* latest response.
UnassignedBackoff ==
    /\ [](\A c \in Callers :
            /\ (lk[c].pc = "done" /\ lk[c].unassigned /\ ~lk[c].mixed) =>
                  /\ ID_GEN >= lk[c].id0 + 2
                  /\ lk[c].ret = lk[c].last
                  /\ lk[c].ret \in AllBrokers
            /\ (lk[c].pc = "raised" /\ lk[c].unassigned
                    /\ lk[c].partition \in ClusterPartitions[lk[c].topic]) =>
                  op[c].exc = "AllServersFailed")
    /\ \A c \in Callers : (stk[c] # <<>>) ~> (stk[c] = <<>>)

\* a lookup whose refresh was first told the topic has no leader
UnassignedBackoffWitness ==
    \E c \in Callers :
        /\ lk[c].pc = "done" /\ lk[c].unassigned /\ ~lk[c].mixed
        /\ lk[c].loads = 1

\* C9: the metadata request goes to the pools one after another until one
\* answers; a refresh fails as unreachable only when every pool refused,
\* and then brokers, leader map and partition lists are as before it.
ClusterUnreachableClean ==
    \A c \in Callers :
        /\ (stk[c] # <<>> /\ Top(c).pc = "L85") =>
              /\ Top(c).via \in DOMAIN conns
              /\ Top(c).via \notin Range(Top(c).tried)
        /\ (op[c].fn = "lookup" /\ op[c].pc = "done"
                /\ op[c].exc = "AllServersFailed") =>
              /\ Range(op[c].failed) = DOMAIN conns
              /\ Snapshot = op[c].pre

\* C10: with fail_on_error the facade raises the kind mapped from the first
\* non-zero error code, in output order, and returns every response only when
\* all codes are zero; without it every response is returned, in order.
StrictLenient ==
    \A c \in Callers :
        (SendOver(c) /\ snd[c].pc = "done") =>
            LET R == snd[c].ret
                nz == { i \in DOMAIN R : R[i].error # 0 }
            IN  IF op[c].fail_on_error /\ nz # {}
                THEN /\ op[c].status = "raised"
                     /\ \E i \in nz :
                           /\ \A j \in nz : i <= j
                           /\ op[c].exc =
                                IF R[i].error \in DOMAIN ERROR_CODE_MAPPING
                                THEN ERROR_CODE_MAPPING[R[i].error]
                                ELSE "UnknownException"
                ELSE op[c].status = "ok" /\ op[c].out = R

\* strict mode, a mapped code first and an unmapped one second
StrictLenientWitness ==
    \E c \in Callers :
        /\ SendOver(c) /\ snd[c].pc = "done" /\ op[c].fail_on_error
        /\ Len(snd[c].ret) = 2
        /\ snd[c].ret[1].error \in DOMAIN ERROR_CODE_MAPPING
        /\ snd[c].ret[2].error \notin DOMAIN ERROR_CODE_MAPPING \cup {0}
        /\ op[c].exc = "UnknownTopicOrPartitionError"

\* C11: a send with acks = 0 has no decoder: every leader group goes out with
\* the pool's push and never with request; the call returns nothing when
\* every push succeeded, and the payloads of a group whose push failed are in
\* the FailedPayloadsException.
FireAndForget ==
    \A c \in Callers :
        (op[c].fn = "send" /\ op[c].acks0) =>
            /\ \A j \in DOMAIN snd[c].sent : snd[c].sent[j].how = "push"
            /\ (SendOver(c) /\ Grouped(c)) =>
                  IF FailedBrokers(c) = {}
                  THEN op[c].status = "ok" /\ op[c].out = <<>>
                  ELSE /\ op[c].status = "raised"
                       /\ op[c].exc = "FailedPayloadsException"
                       /\ \A b \in FailedBrokers(c) :
                             Range(snd[c].payloads_by_broker[b]) \subseteq Range(op[c].failed)

\* an acks = 0 send in which one push went out and another failed
FireAndForgetWitness ==
    \E c \in Callers :
        /\ SendOver(c) /\ op[c].acks0
        /\ \E j, k \in DOMAIN snd[c].sent :
              snd[c].sent[j].ok /\ ~snd[c].sent[k].ok

\* the correlation ids carried by the requests that are under way or were sent
\* in the calls in progress: by refreshes, and by leader-group dispatches
IdsInUse ==
    UNION { { [by |-> c, at |-> <<"load", k>>, id |-> stk[c][k].request_id] :
                k \in { x \in DOMAIN stk[c] : stk[c][x].pc # "L72" } }
            \cup { [by |-> c, at |-> <<"sent", j>>, id |-> snd[c].sent[j].id] :
                j \in DOMAIN snd[c].sent }
            \cup IF snd[c].pc = "S183"
                 THEN { [by |-> c, at |-> <<"send", 0>>, id |-> snd[c].request_id] }
                 ELSE {}
          : c \in Callers }

\* C12: whatever the interleaving of the callers, no two requests carry the
\* same correlation id, and each _next_id hands out the count and advances
\* it by one, so successive results are strictly increasing.
UniqueIncreasingIds ==
    /\ [](\A x, y \in IdsInUse : x # y => x.id # y.id)
    /\ [](\A x \in IdsInUse : x.id < ID_GEN)
    /\ [][ID_GEN' # ID_GEN =>
            /\ ID_GEN' = ID_GEN + 1
            /\ \E c \in Callers :
                  \/ /\ stk[c] # <<>> /\ Top(c).pc = "L72"
                     /\ stk'[c][Len(stk'[c])].request_id = ID_GEN
                  \/ /\ snd[c].pc = "S55"
                     /\ snd'[c].request_id = ID_GEN]_vars

\* a refresh of one thread and a dispatch of the other hold ids at once
UniqueIdsWitness ==
    \E c, d \in Callers :
        /\ c # d
        /\ snd[c].pc = "S183"
        /\ stk[d] # <<>> /\ Top(d).pc = "L121"
        /\ snd[c].request_id > Top(d).request_id

\* the pools _get_conn_for_broker has handed to the dispatches of the calls in
\* progress, each with the address it was asked for
Handed ==
    UNION { { [address |-> Address(snd[c].sent[j].broker), conn |-> snd[c].sent[j].conn] :
                j \in DOMAIN snd[c].sent }
            \cup IF snd[c].pc = "S183"
                 THEN { [address |-> Address(snd[c].broker), conn |-> snd[c].conn] }
                 ELSE {}
          : c \in Callers }

\* C13: when two callers run _get_conn_for_broker for an address without a
\* pool, one pool is made for it: both are handed the same instance, it is the
\* one in the registry, and no second pool is constructed for the address.
NoDuplicatePool ==
    /\ \A x, y \in Handed : x.address = y.address => x.conn = y.conn
    /\ \A x \in Handed : x.address \in DOMAIN conns /\ conns[x.address] = x.conn
    /\ pools = Cardinality(DOMAIN conns)

\* caller d is about to read the leader map in _get_leader_for_partition
Reading(d) == stk[d] = <<>> /\ lk[d].pc \in {"L59", "L62", "L65"}
\* caller c is inside a refresh that has emptied the leader map (line 86) and
\* has not returned
Refreshing(c) == \E j \in DOMAIN stk[c] : stk[c][j].pc \in {"L88", "L99", "L107"}

\* C14: a caller that reads the cache while another caller refreshes or
\* invalidates it never finds a leader entry whose partition is missing from
\* the partition list of its topic, and never finds the leader map as a refresh
\* still under way has emptied it.
AtomicCacheWrites ==
    \A d \in Callers :
        Reading(d) =>
            /\ \A k \in DOMAIN topics_to_brokers :
                  /\ k.topic \in DOMAIN topic_partitions
                  /\ k.partition \in Range(topic_partitions[k.topic])
            /\ \A c \in Callers \ {d} : ~Refreshing(c)

\* the transport calls of the caller's call in progress and of its call before
Dispatches(c) ==
    { snd[c].sent[j] : j \in DOMAIN snd[c].sent }
        \cup { op[c].prev[j] : j \in DOMAIN op[c].prev }

\* C15: with one caller the registry never loses an address, the pool stored
\* for an address never changes, the bootstrap address stays, and dispatches
\* to the same (host, port), in one call or in successive calls, use the same
\* pool instance, the one the registry holds.
PoolReuse ==
    /\ [][\A a \in DOMAIN conns : a \in DOMAIN conns' /\ conns'[a] = conns[a]]_vars
    /\ [](Bootstrap \in DOMAIN conns /\ conns[Bootstrap] = 1)
    /\ [](\A c \in Callers :
            /\ \A x, y \in Dispatches(c) :
                  Address(x.broker) = Address(y.broker) => x.conn = y.conn
            /\ \A x \in Dispatches(c) :
                  /\ Address(x.broker) \in DOMAIN conns
                  /\ conns[Address(x.broker)] = x.conn)

\* two successive calls dispatched to the same address, one that got its pool
\* after construction
PoolReuseWitness ==
    \E c \in Callers :
        /\ op[c].prev # <<>> /\ snd[c].sent # <<>>
        /\ Address(op[c].prev[1].broker) = Address(snd[c].sent[1].broker)
        /\ Address(snd[c].sent[1].broker) # Bootstrap
        /\ op[c].prev[1].conn = snd[c].sent[1].conn

\* no call is in progress, and the last one returned or ended with the
\* failed payloads of a dispatch
Completed ==
    \A c \in Callers :
        /\ op[c].pc = "done"
        /\ op[c].status = "ok" \/ op[c].exc = "FailedPayloadsException"

\* C16: after every completed operation every key of the leader map has its
\* partition in the partition list of its topic, maps to the BrokerMetadata
\* that brokers holds under its broker id, and is no key that the latest
\* response to the caller's lookup reported without a leader.
ClusterView ==
    /\ Completed =>
          \A k \in DOMAIN topics_to_brokers :
              /\ k.topic \in DOMAIN topic_partitions
              /\ k.partition \in Range(topic_partitions[k.topic])
              /\ topics_to_brokers[k].nodeId \in DOMAIN brokers
              /\ brokers[topics_to_brokers[k].nodeId] = topics_to_brokers[k]
    /\ \A c \in Callers :
          (/\ op[c].pc = "done" /\ lk[c].pc \in {"done", "raised"} /\ lk[c].loads = 1
           /\ lk[c].last = EmptyDict
           /\ lk[c].partition \in ClusterPartitions[lk[c].topic]) =>
              LookupKey(c) \notin DOMAIN topics_to_brokers

\* C17: after a completed refresh, retries included, the partition list of
\* each topic holds every partition number at most once.
NoDuplicatePartitions ==
    (\A c \in Callers : op[c].pc = "done" /\ op[c].status = "ok") =>
        \A x \in DOMAIN topic_partitions :
            \A i, j \in DOMAIN topic_partitions[x] :
                i # j => topic_partitions[x][i] # topic_partitions[x][j]

\* C18: when the refresh of a lookup has returned, retries included, the
\* leader cached for the key is the one the most recent response of that
\* refresh reported.
NewestView ==
    \A c \in Callers :
        (lk[c].pc = "done" /\ lk[c].loads = 1) =>
            /\ lk[c].last # EmptyDict
            /\ lk[c].ret = lk[c].last

\* C19: no pool is fetched and no push or request is issued before the leader
\* of every payload is resolved; a send call that ends with the error of a
\* lookup (unknown partition, or its refresh found no server) has issued no
\* transport call for any payload.
ResolutionFirst ==
    \A c \in Callers :
        op[c].fn = "send" =>
            /\ snd[c].sent # <<>> => Grouped(c)
            /\ snd[c].pc \in {"S176", "S47", "S48", "S55", "S183"} => Grouped(c)
            /\ (op[c].pc = "done" /\ op[c].exc \in
                    {"PartitionDoesNotExist", "AllServersFailed", "KeyError"}) =>
                  /\ snd[c].sent = <<>>
                  /\ ~Grouped(c)

\* the first payload was resolved, the second is unknown after its refresh
ResolutionFirstWitness ==
    \E c \in Callers :
        /\ SendOver(c) /\ op[c].exc = "PartitionDoesNotExist"
        /\ Len(op[c].payloads) = 2 /\ snd[c].i = 2
        /\ snd[c].payloads_by_broker # EmptyDict
        /\ snd[c].sent = <<>>

\* C20: with several callers on one client, a lookup fails with the
\* unknown-partition error (or the KeyError of line 65) only when it made its
\* own refresh and the latest response of that refresh did not report the
\* partition with a leader.
GenuineUnknown ==
    \A c \in Callers :
        (lk[c].pc = "raised" /\ op[c].exc \in {"PartitionDoesNotExist", "KeyError"}) =>
            /\ lk[c].loads = 1
            /\ lk[c].last = EmptyDict
=============================================================================
